---- MODULE Spec2Model ----
(***************************************************************************)
(* A model of parsers.py: the bibliography classes BibFile and BibEntry    *)
(* and the text passes of LatexFile.                                       *)
(*                                                                         *)
(* Text is a sequence of one-character strings; a LaTeX directive that a   *)
(* regular expression matches as a unit is one element of the sequence.    *)
(* A Python dict is a sequence of <<key, value>> pairs with distinct keys, *)
(* in insertion order.                                                     *)
(***************************************************************************)
EXTENDS Integers, Sequences, FiniteSets, TLC

VARIABLES
    self,       \* BibFile: the left operand / the collection operated on
    other,      \* BibFile: the file being loaded, the right operand of +
    last,       \* the last call: its name, the object before it (for a call
                \* that changes it), its argument or return value
    file_label,         \* LatexFile.file_label of each document
    modified_content,   \* LatexFile.modified_content of each document
    fs,         \* the files on disk: path -> content
    pc          \* where the caller is in its sequence of passes

bibVars == <<self, other>>

texVars == <<file_label, modified_content, fs, pc>>

vars == <<self, other, last, file_label, modified_content, fs, pc>>

(***************************************************************************)
(* Bounds of the model.                                                    *)
(***************************************************************************)
\* entries a loaded file may hold
MaxParsed == 2
\* entries the combined collection may hold
MaxEntries == 3
\* non-entry lines a collection may hold
MaxLines == 1

(***************************************************************************)
(* Text helpers.                                                           *)
(***************************************************************************)
Space == {" ", "\n"}

\* str.lower() on the characters the model uses
LowerChar(c) ==
    CASE c = "D" -> "d"
      [] c = "P" -> "p"
      [] c = "J" -> "j"
      [] c = "M" -> "m"
      [] OTHER -> c

Lower(s) == [i \in 1..Len(s) |-> LowerChar(s[i])]

\* re.sub("[...]", "", s): s without the characters of set
Remove(s, set) == SelectSeq(s, LAMBDA c: c \notin set)

RECURSIVE LStrip(_)
LStrip(s) == IF s # <<>> /\ Head(s) \in Space THEN LStrip(Tail(s)) ELSE s

RECURSIVE RStrip(_)
RStrip(s) ==
    IF s # <<>> /\ s[Len(s)] \in Space THEN RStrip(SubSeq(s, 1, Len(s) - 1)) ELSE s

\* str.strip()
Strip(s) == LStrip(RStrip(s))

\* LatexNodes2Text().latex_to_text on text without macros: a brace group is
\* replaced by its content
LatexToText(s) == Remove(s, {"{", "}"})

convert_to_lower_unicode(text) == Remove(Lower(LatexToText(text)), {" ", "{", "}"})

(***************************************************************************)
(* dict                                                                    *)
(***************************************************************************)
DictKeys(d) == [i \in 1..Len(d) |-> d[i][1]]

DictValues(d) == [i \in 1..Len(d) |-> d[i][2]]

DictHas(d, k) == \E i \in 1..Len(d) : d[i][1] = k

DictGet(d, k) == d[CHOOSE i \in 1..Len(d) : d[i][1] = k][2]

\* d[k] = v: a present key keeps its place, a new key goes last
DictSet(d, k, v) ==
    IF DictHas(d, k)
    THEN [i \in 1..Len(d) |-> IF d[i][1] = k THEN <<k, v>> ELSE d[i]]
    ELSE Append(d, <<k, v>>)

\* d.pop(k)
DictPop(d, k) == SelectSeq(d, LAMBDA p : p[1] # k)

\* {**d, **e}
RECURSIVE DictUpdate(_, _)
DictUpdate(d, e) ==
    IF e = <<>> THEN d ELSE DictUpdate(DictSet(d, e[1][1], e[1][2]), Tail(e))

(***************************************************************************)
(* BibEntry                                                                *)
(***************************************************************************)
\* BibEntry.__init__ with fields already parsed
BibEntry(type, id_key, fields) == [type |-> type, id_key |-> id_key, fields |-> fields]

CompareFields == {"title", "doi", "isbn"}

\* one turn of the loop of BibEntry.__eq__
FieldEq(a, b, field) ==
    /\ DictHas(a.fields, field)
    /\ DictHas(b.fields, field)
    /\ DictGet(a.fields, field) # <<>>
    /\ DictGet(b.fields, field) # <<>>
    /\ LET field_1 == Lower(DictGet(a.fields, field))
           field_2 == Lower(DictGet(b.fields, field))
       IN  IF field = "title"
           THEN convert_to_lower_unicode(field_1) = convert_to_lower_unicode(field_2)
           ELSE field_1 = field_2

\* BibEntry.__eq__
EntryEq(a, b) ==
    \/ a.id_key = b.id_key
    \/ \E field \in CompareFields : FieldEq(a, b, field)

\* Merge with the overlay reversed: other's values win
MergeOtherWins(a, b) ==
    BibEntry(a.type,
             IF Len(a.id_key) < Len(b.id_key) THEN a.id_key ELSE b.id_key,
             DictUpdate(a.fields, b.fields))

\* BibEntry.merge: the shorter id_key (other's on a tie), self's type,
\* other's fields overlaid with self's
Merge(a, b) ==
    BibEntry(a.type,
             IF Len(a.id_key) < Len(b.id_key) THEN a.id_key ELSE b.id_key,
             DictUpdate(b.fields, a.fields))

\* str.lower() on a field name or an entry type
LowerName(n) ==
    CASE n = "Title" -> "title"
      [] n = "DOI" -> "doi"
      [] n = "Control" -> "control"
      [] OTHER -> n

RECURSIVE CollapseSpace(_)
\* re.sub("[\n\r\ ]+", " ", field)
CollapseSpace(s) ==
    IF s = <<>> THEN <<>>
    ELSE IF Head(s) \in Space
    THEN IF Len(s) > 1 /\ s[2] \in Space
         THEN CollapseSpace(Tail(s))
         ELSE <<" ">> \o CollapseSpace(Tail(s))
    ELSE <<Head(s)>> \o CollapseSpace(Tail(s))

\* [A-Z] on the characters the model uses
UpperCase == {"D", "P", "J", "M"}

RECURSIVE Run(_, _, _)
\* the number of characters of set from position i on
Run(s, i, set) == IF i <= Len(s) /\ s[i] \in set THEN 1 + Run(s, i + 1, set) ELSE 0

RECURSIVE Dotted(_)
\* " ".join(i + "." for i in m.group(1))
Dotted(letters) ==
    IF Len(letters) = 1 THEN <<letters[1], ".">>
    ELSE <<letters[1], ".", " ">> \o Dotted(Tail(letters))

RECURSIVE AuthorInitials(_, _)
\* the re.sub of parse_entry on an author field, scanning from position i:
\* white space, a run of capitals, then white space or the end become
\* " J. M." and the character that followed, which the match has consumed
AuthorInitials(s, i) ==
    IF i > Len(s) THEN <<>>
    ELSE LET w == Run(s, i, Space)
             u == Run(s, i + w, UpperCase)
             e == i + w + u
         IN  IF w >= 1 /\ u >= 1 /\ (e > Len(s) \/ s[e] \in Space)
             THEN <<" ">> \o Dotted(SubSeq(s, i + w, e - 1))
                  \o (IF e > Len(s) THEN <<>> ELSE <<s[e]>>)
                  \o AuthorInitials(s, e + 1)
             ELSE <<s[i]>> \o AuthorInitials(s, i + 1)

\* the value of one field in BibEntry.parse_entry: stripped, a trailing comma
\* dropped, white space collapsed, one layer of braces or quotes removed
ParseValue(raw) ==
    LET s == Strip(raw)
        c == IF s # <<>> /\ s[Len(s)] = "," THEN SubSeq(s, 1, Len(s) - 1) ELSE s
        t == CollapseSpace(c)
    IN  IF Len(t) >= 2 /\ \/ t[1] = "{" /\ t[Len(t)] = "}"
                          \/ t[1] = "\"" /\ t[Len(t)] = "\""
        THEN SubSeq(t, 2, Len(t) - 1)
        ELSE t

\* BibEntry.parse_entry over the (name, value) pieces of re.split
RECURSIVE ParseFields(_, _)
ParseFields(fields, pieces) ==
    IF pieces = <<>> THEN fields
    ELSE LET entry_key == LowerName(pieces[1][1])
             field     == ParseValue(pieces[1][2])
         IN  ParseFields(DictSet(fields, entry_key,
                                 IF entry_key = "author"
                                 THEN AuthorInitials(field, 1) ELSE field),
                         Tail(pieces))

(***************************************************************************)
(* BibFile                                                                 *)
(***************************************************************************)
\* BibFile.__init__ with no file name
BibFile == [bib_entries |-> <<>>, non_entry_lines |-> <<>>]

\* the suffix __add__ gives a colliding key
Copy == <<"C", "o", "p", "y">>

\* str(index) for the indices the model reaches
Str(n) == <<ToString(n)>>

RECURSIVE FreeIndex(_, _, _)
\* the while loop of __add__: the first index with new_key + str(index) unused
FreeIndex(entries, new_key, index) ==
    IF DictHas(entries, new_key \o Str(index))
    THEN FreeIndex(entries, new_key, index + 1)
    ELSE index

\* one turn of the for loop of BibFile.__add__
AddItem(entries, key, value) ==
    IF DictHas(entries, key)
    THEN IF EntryEq(value, DictGet(entries, key))
         THEN LET new_entry == Merge(value, DictGet(entries, key))
              IN  DictSet(entries, new_entry.id_key, new_entry)
         ELSE LET new_key == key \o Copy
                  index == FreeIndex(entries, new_key, 1)
              IN  DictSet(entries, new_key \o Str(index), value)
    ELSE DictSet(entries, key, value)

RECURSIVE AddItems(_, _)
AddItems(entries, items) ==
    IF items = <<>> THEN entries
    ELSE AddItems(AddItem(entries, items[1][1], items[1][2]), Tail(items))

\* __add__ that forgets other's non-entry lines
AddDropsLines(a, b) ==
    [bib_entries |-> AddItems(a.bib_entries, b.bib_entries),
     non_entry_lines |-> a.non_entry_lines]

\* BibFile.__add__
Add(a, b) ==
    [bib_entries |-> AddItems(a.bib_entries, b.bib_entries),
     non_entry_lines |-> a.non_entry_lines \o b.non_entry_lines]

\* the inner for loop of find_duplicated_entries: the indices of remaining
\* whose value equals values[index], in order
Matches(values, index, remaining) ==
    SelectSeq(remaining, LAMBDA i : EntryEq(values[index], values[i]))

RECURSIVE FindGroups(_, _)
\* the while loop of find_duplicated_entries, over index lists
FindGroups(values, remaining) ==
    IF remaining = <<>> THEN <<>>
    ELSE LET index == Head(remaining)
             found == Matches(values, index, Tail(remaining))
             aux   == <<index>> \o found
             rest  == SelectSeq(Tail(remaining),
                                LAMBDA i : ~ \E j \in 1..Len(found) : found[j] = i)
         IN  (IF Len(aux) > 1 THEN <<aux>> ELSE <<>>) \o FindGroups(values, rest)

\* BibFile.find_duplicated_entries: the groups, as lists of keys
find_duplicated_entries(entries) ==
    LET keys   == DictKeys(entries)
        values == DictValues(entries)
        dup    == FindGroups(values, [i \in 1..Len(entries) |-> i])
    IN  [g \in 1..Len(dup) |-> [n \in 1..Len(dup[g]) |-> keys[dup[g][n]]]]

RECURSIVE MergeGroup(_, _, _)
\* the fold of merge_duplicated_entries over group[1:]
MergeGroup(entries, new_entry, keys) ==
    IF keys = <<>> THEN new_entry
    ELSE MergeGroup(entries, Merge(new_entry, DictGet(entries, Head(keys))), Tail(keys))

RECURSIVE PopAll(_, _)
\* self.bib_entries.pop(key) for every key of the group
PopAll(entries, keys) ==
    IF keys = <<>> THEN entries ELSE PopAll(DictPop(entries, Head(keys)), Tail(keys))

\* the rename map filled with the group's first key instead of the merged one
RecordAllFirst(merged_keys, keys, id_key) ==
    DictUpdate(merged_keys, [i \in 1..Len(keys) |-> <<keys[i], keys[1]>>])

RECURSIVE RecordAll(_, _, _)
\* merged_keys[key] = new_entry.id_key for every key of the group
RecordAll(merged_keys, keys, id_key) ==
    IF keys = <<>> THEN merged_keys
    ELSE RecordAll(DictSet(merged_keys, Head(keys), id_key), Tail(keys), id_key)

RECURSIVE MergeGroupsAtFirst(_, _, _)
\* the loop with the merged entry stored under the group's first key
MergeGroupsAtFirst(entries, merged_keys, groups) ==
    IF groups = <<>> THEN [bib_entries |-> entries, merged_keys |-> merged_keys]
    ELSE LET group     == Head(groups)
             new_entry == MergeGroup(entries, DictGet(entries, group[1]), Tail(group))
         IN  MergeGroupsAtFirst(DictSet(PopAll(entries, group), group[1], new_entry),
                                RecordAll(merged_keys, group, new_entry.id_key),
                                Tail(groups))

RECURSIVE MergeGroups(_, _, _)
\* the for loop of merge_duplicated_entries over the groups
MergeGroups(entries, merged_keys, groups) ==
    IF groups = <<>> THEN [bib_entries |-> entries, merged_keys |-> merged_keys]
    ELSE LET group     == Head(groups)
             new_entry == MergeGroup(entries, DictGet(entries, group[1]), Tail(group))
         IN  MergeGroups(DictSet(PopAll(entries, group), new_entry.id_key, new_entry),
                         RecordAll(merged_keys, group, new_entry.id_key),
                         Tail(groups))

\* BibFile.merge_duplicated_entries: the entries after it and the map it returns
merge_duplicated_entries(entries) ==
    MergeGroups(entries, <<>>, find_duplicated_entries(entries))

\* what re.match finds in one raw entry: matched is FALSE for text that is not
\* "word { body }"; key_line is the body up to its first newline
RawEntries ==
    { [matched |-> TRUE, type |-> "article", key_line |-> <<" ", "a", ",">>,
       pieces |-> << <<"Title", <<"{", "D", "}", ",">> >>,
                     <<"year", <<"{", "1", "}">> >> >>],
      [matched |-> TRUE, type |-> "article", key_line |-> <<"b", "b", ",">>,
       pieces |-> << <<"title", <<"{", "{", "d", "}", "}", ",">> >>,
                     <<"doi", <<"{", "p", "}">> >> >>],
      [matched |-> TRUE, type |-> "book", key_line |-> <<"c", ",">>,
       pieces |-> << <<"DOI", <<"\"", "P", "\"", ",">> >>,
                     <<"author", <<"{", "d", " ", "\n", "J", "M", "}", ",">> >>,
                     <<"year", <<"{", "2", "}">> >> >>],
      [matched |-> TRUE, type |-> "article", key_line |-> <<"a", ",", " ">>,
       pieces |-> << <<"title", <<"{", "x", "}", ",">> >>,
                     <<"year", <<"{", "2", "}">> >> >>],
      [matched |-> TRUE, type |-> "Control", key_line |-> <<"c", "t", "l">>,
       pieces |-> <<>>],
      [matched |-> FALSE, type |-> "", key_line |-> <<>>, pieces |-> <<>>] }

\* BibFile.parse_entry on one raw entry
parse_entry(bib, entry) ==
    IF LowerName(entry.type) \in {"control"}
    THEN [bib EXCEPT !.non_entry_lines = Append(@, <<"@">> \o entry.key_line)]
    ELSE LET key == Remove(Strip(entry.key_line), {","})
         IN  [bib EXCEPT !.bib_entries =
                  DictSet(@, key, BibEntry(entry.type, key, ParseFields(<<>>, entry.pieces)))]

(***************************************************************************)
(* The bibliography state machine.                                         *)
(***************************************************************************)
Call(op, pre, ret) == [op |-> op, pre |-> pre, ret |-> ret]

\* no LaTeX document is loaded
NoTex ==
    /\ file_label = <<>>
    /\ modified_content = <<>>
    /\ fs = <<>>
    /\ pc = "bib"

\* no bibliography is loaded
NoBib == self = BibFile /\ other = BibFile

InitBib ==
    /\ self = BibFile
    /\ other = BibFile
    /\ last = Call("init", <<>>, <<>>)
    /\ NoTex

\* other = BibFile()
NewBibFile ==
    /\ UNCHANGED texVars
    /\ other # BibFile
    /\ other' = BibFile
    /\ self' = self
    /\ last' = Call("new", <<>>, <<>>)

\* other.parse_entry(entry); a raw entry that does not match raises ValueError
ParseEntry ==
    /\ UNCHANGED texVars
    /\ \E entry \in RawEntries :
        /\ IF entry.matched
           THEN /\ other' = parse_entry(other, entry)
                /\ Len(other'.bib_entries) <= MaxParsed
                /\ Len(other'.non_entry_lines) <= MaxLines
                /\ last' = Call("parse_entry", <<>>, <<>>)
           ELSE /\ other' = other
                /\ last' = Call("parse_entry", <<>>, <<"ValueError">>)
        /\ self' = self

\* self = self + other
AddFiles ==
    /\ UNCHANGED texVars
    /\ Len(self.bib_entries) + Len(other.bib_entries) <= MaxEntries
    /\ Len(self.non_entry_lines) + Len(other.non_entry_lines) <= MaxLines
    /\ self' = Add(self, other)
    /\ other' = other
    /\ last' = Call("add", self, <<>>)

\* The calls on self below do not read other; the caller makes them between
\* loads, when no file is half loaded (other = BibFile()).

\* self.find_duplicated_entries()
FindDuplicated ==
    /\ UNCHANGED texVars
    /\ other = BibFile
    /\ self.bib_entries # <<>>
    /\ last' = Call("find", <<>>, find_duplicated_entries(self.bib_entries))
    /\ UNCHANGED <<self, other>>

\* self.merge_duplicated_entries()
MergeDuplicated ==
    /\ UNCHANGED texVars
    /\ other = BibFile
    /\ self.bib_entries # <<>>
    /\ LET r == merge_duplicated_entries(self.bib_entries)
       IN  /\ self' = [self EXCEPT !.bib_entries = r.bib_entries]
           /\ last' = Call("merge_all", self, r.merged_keys)
    /\ other' = other

\* a.merge(b) and b.merge(a) for two entries a, b of the collection
MergePair ==
    /\ UNCHANGED texVars
    /\ \E i, j \in 1..Len(self.bib_entries) :
        /\ i < j
        /\ other = BibFile
        /\ LET a == self.bib_entries[i][2]
               b == self.bib_entries[j][2]
           IN  last' = Call("merge", <<a, b>>, <<Merge(a, b), Merge(b, a)>>)
        /\ UNCHANGED <<self, other>>

\* BibFile.__radd__: self for a falsy left operand (the 0 that sum() starts
\* from), ValueError otherwise
radd(bib, left) == IF left = 0 THEN <<"return", bib>> ELSE <<"ValueError">>

\* left + self for a left operand that is no BibFile
Radd ==
    /\ UNCHANGED texVars
    /\ \E left \in {0, 1} :
        /\ other = BibFile
        /\ self.bib_entries # <<>>
        /\ last' = Call("radd", <<>>, radd(self, left))
        /\ UNCHANGED <<self, other>>

NextBib ==
    \/ NewBibFile
    \/ ParseEntry
    \/ AddFiles
    \/ FindDuplicated
    \/ MergeDuplicated
    \/ MergePair
    \/ Radd

SpecBib == InitBib /\ [][NextBib]_vars

(***************************************************************************)
(* Properties of the bibliography classes.                                 *)
(***************************************************************************)
KeySet(d) == {d[i][1] : i \in 1..Len(d)}

SameWork(a, b) == \E field \in CompareFields : FieldEq(a, b, field)

\* C1: after self + other, a key K that both operands hold with records that
\* match in none of title, doi, isbn leaves both records in the result, one
\* under K and other's under K + "Copy" + an integer, so the result holds more
\* records than the operands have distinct keys.
C1_CollisionKeepsBoth ==
    last.op = "add" =>
        \A K \in KeySet(last.pre.bib_entries) \cap KeySet(other.bib_entries) :
            ~ SameWork(DictGet(last.pre.bib_entries, K), DictGet(other.bib_entries, K))
            => /\ DictHas(self.bib_entries, K)
               /\ \E n \in 1..9 :
                      /\ DictHas(self.bib_entries, K \o Copy \o Str(n))
                      /\ DictGet(self.bib_entries, K \o Copy \o Str(n))
                            = DictGet(other.bib_entries, K)
               /\ Len(self.bib_entries)
                    > Cardinality(KeySet(last.pre.bib_entries) \cup KeySet(other.bib_entries))

GroupSet(g) == {g[n] : n \in 1..Len(g)}

\* C2: the groups find_duplicated_entries returns are pairwise disjoint, each
\* holds at least 2 keys, and any two equal records of the collection are in
\* one group.
C2_GroupsAreEqualityClasses ==
    last.op = "find" =>
        LET groups == last.ret
            d      == self.bib_entries
        IN  /\ \A g, h \in 1..Len(groups) :
                   g # h => GroupSet(groups[g]) \cap GroupSet(groups[h]) = {}
            /\ \A g \in 1..Len(groups) : Cardinality(GroupSet(groups[g])) >= 2
            /\ \A i, j \in 1..Len(d) :
                   i # j /\ EntryEq(d[i][2], d[j][2])
                   => \E g \in 1..Len(groups) : {d[i][1], d[j][1]} \subseteq GroupSet(groups[g])

\* C3: after merge_duplicated_entries, every key the collection lost is a key
\* of the returned map; each group of duplicates keeps exactly one of its keys
\* in the collection, the record stored there carries that key as its id_key,
\* and every key of the group maps to it.
C3_RenamedToSurvivor ==
    last.op = "merge_all" =>
        LET before == last.pre.bib_entries
            after  == self.bib_entries
            groups == find_duplicated_entries(before)
        IN  /\ \A k \in KeySet(before) \ KeySet(after) :
                   /\ DictHas(last.ret, k)
                   /\ DictHas(after, DictGet(last.ret, k))
            /\ \A g \in 1..Len(groups) :
                   \E final \in GroupSet(groups[g]) :
                       /\ GroupSet(groups[g]) \cap KeySet(after) = {final}
                       /\ DictGet(after, final).id_key = final
                       /\ \A k \in GroupSet(groups[g]) :
                              DictHas(last.ret, k) /\ DictGet(last.ret, k) = final

\* a merge_duplicated_entries call that merged a group and removed a key
C3_Witness ==
    /\ last.op = "merge_all"
    /\ last.ret # <<>>
    /\ KeySet(last.pre.bib_entries) \ KeySet(self.bib_entries) # {}
    /\ Len(self.bib_entries) >= 2

FieldSet(e) == KeySet(e.fields)

\* m has the shorter key's id, the union of the fields, and winner's value
\* for every field both records hold
MergedFrom(m, winner, loser, keyA) ==
    /\ m.id_key = keyA
    /\ FieldSet(m) = FieldSet(winner) \cup FieldSet(loser)
    /\ \A f \in FieldSet(winner) \cap FieldSet(loser) :
           DictGet(m.fields, f) = DictGet(winner.fields, f)

Shorter(a, b) == IF Len(a.id_key) < Len(b.id_key) THEN a ELSE b

\* the two records of every two-key duplicate group of the collection d, in
\* the group's order
Pairs(d) ==
    LET groups == find_duplicated_entries(d)
    IN  { <<DictGet(d, groups[g][1]), DictGet(d, groups[g][2])>> :
              g \in {h \in 1..Len(groups) : Len(groups[h]) = 2} }

\* C4: merging two equal records whose keys differ in length gives the
\* shorter key, the union of the fields and, for a field of both, the value of
\* the record with the shorter key, in either operand order of merge and in
\* either order of the two records in a group of merge_duplicated_entries.
C4_ShorterKeyValuesWin ==
    /\ last.op = "merge" =>
           LET a == last.pre[1]
               b == last.pre[2]
           IN  EntryEq(a, b) /\ Len(a.id_key) # Len(b.id_key)
               => LET A == Shorter(a, b)
                      B == IF A = a THEN b ELSE a
                  IN  /\ MergedFrom(last.ret[1], A, B, A.id_key)
                      /\ MergedFrom(last.ret[2], A, B, A.id_key)
    /\ last.op = "merge_all" =>
           \A p \in Pairs(last.pre.bib_entries) :
               Len(p[1].id_key) # Len(p[2].id_key)
               => LET A == Shorter(p[1], p[2])
                      B == IF A = p[1] THEN p[2] ELSE p[1]
                  IN  /\ DictHas(self.bib_entries, A.id_key)
                      /\ MergedFrom(DictGet(self.bib_entries, A.id_key), A, B, A.id_key)

\* C4 as amended: the merged record has the shorter key and the union of the
\* fields, and for a field of both the value of the record merge was called
\* on (in a group, of the record that comes first), whichever key is shorter.
C4_SelfValuesWin ==
    /\ last.op = "merge" =>
           LET a == last.pre[1]
               b == last.pre[2]
           IN  EntryEq(a, b) /\ Len(a.id_key) # Len(b.id_key)
               => /\ MergedFrom(last.ret[1], a, b, Shorter(a, b).id_key)
                  /\ MergedFrom(last.ret[2], b, a, Shorter(a, b).id_key)
    /\ last.op = "merge_all" =>
           \A p \in Pairs(last.pre.bib_entries) :
               Len(p[1].id_key) # Len(p[2].id_key)
               => LET keyA == Shorter(p[1], p[2]).id_key
                  IN  /\ DictHas(self.bib_entries, keyA)
                      /\ MergedFrom(DictGet(self.bib_entries, keyA), p[1], p[2], keyA)

\* merge_duplicated_entries has merged a group of two whose first record has
\* the longer key and whose records both hold a field, with different values
C4_Witness ==
    /\ last.op = "merge_all"
    /\ \E p \in Pairs(last.pre.bib_entries) :
           /\ Len(p[1].id_key) > Len(p[2].id_key)
           /\ \E f \in FieldSet(p[1]) \cap FieldSet(p[2]) :
                  DictGet(p[1].fields, f) # DictGet(p[2].fields, f)
           /\ FieldSet(p[1]) \ FieldSet(p[2]) # {}
           /\ FieldSet(p[2]) \ FieldSet(p[1]) # {}

KeysMatch(bib) ==
    \A i \in 1..Len(bib.bib_entries) :
        bib.bib_entries[i][1] = bib.bib_entries[i][2].id_key

\* C9: every key of bib_entries is the id_key of the entry stored under it,
\* in every collection parse_entry, + and merge_duplicated_entries produce.
C9_KeyIsIdKey == KeysMatch(self) /\ KeysMatch(other)

\* a collection made by parsing, adding (with a merge of two entries under
\* one key) and merging duplicates
C9_Witness ==
    /\ last.op = "merge_all"
    /\ last.ret # <<>>
    /\ \E i \in 1..Len(self.bib_entries) :
           Len(self.bib_entries[i][2].fields) >= 3
    /\ self.non_entry_lines # <<>>

\* C10: c + BibFile() and BibFile() + c hold c's keys, c's entry under each
\* key and c's non-entry lines in c's order; 0 + c is c.
C10_EmptyIsIdentity ==
    /\ last.op = "add" /\ other = BibFile => self = last.pre
    /\ last.op = "add" /\ last.pre = BibFile => self = other
    /\ last.op = "radd" /\ last.ret[1] = "return" => last.ret[2] = self

\* BibFile() + c for a c with two entries and a non-entry line
C10_Witness ==
    /\ last.op = "add"
    /\ last.pre = BibFile
    /\ Len(other.bib_entries) >= 2
    /\ other.non_entry_lines # <<>>
    /\ self = other

\* C12: after merge_duplicated_entries, no two distinct records of the
\* collection are equal, find_duplicated_entries returns no group, and one
\* more merge_duplicated_entries returns an empty map and leaves the
\* collection as it is.
C12_MergeAllFixedPoint ==
    last.op = "merge_all" =>
        LET d == self.bib_entries
        IN  /\ \A i, j \in 1..Len(d) : i # j => ~ EntryEq(d[i][2], d[j][2])
            /\ find_duplicated_entries(d) = <<>>
            /\ merge_duplicated_entries(d) = [bib_entries |-> d, merged_keys |-> <<>>]

(***************************************************************************)
(* LatexFile.substitute_inputs                                             *)
(*                                                                         *)
(* A document is a sequence of tokens [cmd, arg]: "text", "endinput" (the  *)
(* \endinput marker), "input" (\input{arg}, closed on its line) and        *)
(* "input{" (an \input{ with no closing brace on its line, which the       *)
(* loop's test sees and the regular expression does not match).            *)
(* A path is a sequence of name parts.                                     *)
(***************************************************************************)
\* tokens a document may grow to while inputs are substituted
MaxLen == 4

Text(c) == [cmd |-> "text", arg |-> <<c>>]

EndInput == [cmd |-> "endinput", arg |-> <<>>]

Input(f) == [cmd |-> "input", arg |-> f]

InputOpen == [cmd |-> "input{", arg |-> <<>>]

TexExt == <<".", "tex">>

\* os.path.join(self.file_dir, f_input)
FileDir == <<"dir", "/">>

RECURSIVE Basename(_)
\* os.path.basename
Basename(f) ==
    IF \E i \in 1..Len(f) : f[i] = "/" THEN Basename(Tail(f)) ELSE f

\* the path _input_to_replace reads for \input{f_input}; <<>> when neither
\* the path as given nor the path under file_dir exists
ResolveInput(files, f_input) ==
    LET named == IF \E i \in 1..Len(Basename(f_input)) : Basename(f_input)[i] = "."
                 THEN f_input ELSE f_input \o TexExt
    IN  IF named \in DOMAIN files THEN named
        ELSE IF FileDir \o named \in DOMAIN files THEN FileDir \o named
        ELSE <<>>

\* LatexFile._input_to_replace: the content of the target without \endinput
input_to_replace(files, f_input) ==
    SelectSeq(files[ResolveInput(files, f_input)], LAMBDA t : t.cmd # "endinput")

RECURSIVE SubInputs(_, _)
\* re.sub of the \input pattern over the whole text: every closed \input is
\* replaced; raised is TRUE when a target is missing (FileNotFoundError)
SubInputs(files, text) ==
    IF text = <<>> THEN [raised |-> FALSE, text |-> <<>>]
    ELSE LET rest == SubInputs(files, Tail(text))
             tok  == Head(text)
         IN  IF tok.cmd # "input"
             THEN [rest EXCEPT !.text = <<tok>> \o @]
             ELSE IF ResolveInput(files, tok.arg) = <<>>
             THEN [raised |-> TRUE, text |-> <<>>]
             ELSE [rest EXCEPT !.text = input_to_replace(files, tok.arg) \o @]

\* r"\input{" in self.modified_content
HasInput(text) == \E i \in 1..Len(text) : text[i].cmd \in {"input", "input{"}

FileA == <<"a">> \o TexExt

FileB == <<"b">> \o TexExt

\* what a file on disk may hold
FileContents ==
    { <<Text("x")>>,
      <<Text("x"), EndInput>>,
      <<Input(<<"a">>)>>,
      <<Input(FileB)>>,
      <<Text("x"), Input(<<"a">>)>>,
      <<InputOpen>> }

\* the paths that may exist: a.tex beside the caller, a.tex and b.tex in the
\* document's directory
Paths == {FileA, FileDir \o FileA, FileDir \o FileB}

\* the documents substitute_inputs is run on
InputDocuments ==
    { <<Text("x")>>,
      <<Text("x"), Input(<<"a">>)>>,
      <<Input(FileB), Text("x")>>,
      <<Input(<<"a">>), Input(<<"b">>)>> }

InitInputs ==
    /\ NoBib
    /\ last = Call("init", <<>>, <<>>)
    /\ file_label = <<"dir">>
    /\ modified_content \in {<<d>> : d \in InputDocuments}
    /\ \E present \in SUBSET Paths : fs \in [present -> FileContents]
    /\ pc = "while"

\* the test of the while loop
TestInput ==
    /\ pc = "while"
    /\ pc' = IF HasInput(modified_content[1]) THEN "sub" ELSE "done"
    /\ UNCHANGED <<bibVars, last, file_label, modified_content, fs>>

\* the body of the while loop: one re.sub over the text
SubstituteInputs ==
    /\ pc = "sub"
    /\ LET r == SubInputs(fs, modified_content[1])
       IN  IF r.raised
           THEN pc' = "FileNotFoundError" /\ UNCHANGED modified_content
           ELSE IF Len(r.text) > MaxLen
           THEN pc' = "too long" /\ UNCHANGED modified_content
           ELSE pc' = "while" /\ modified_content' = <<r.text>>
    /\ UNCHANGED <<bibVars, last, file_label, fs>>

NextInputs ==
    \/ TestInput
    \/ SubstituteInputs

\* the loop keeps running: nothing else is scheduled
SpecInputs == InitInputs /\ [][NextInputs]_vars /\ WF_vars(NextInputs)

\* C5: substitute_inputs ends, for every document and every set of target
\* files: it returns with no \input left, or it stops with an error; it does
\* not loop forever.  (A run whose text outgrows MaxLen is not followed.)
C5_SubstituteInputsEnds == <>(pc \in {"done", "FileNotFoundError", "too long"})

(***************************************************************************)
(* LatexFile.adapt_citations                                               *)
(*                                                                         *)
(* Here a text is a sequence of characters in which a whole \cite{...} or  *)
(* \citenum{...} directive (no closing brace inside) is one element, and   *)
(* "Ref" is one element standing for the letters [Rr]efs? before a dot.    *)
(***************************************************************************)
\* characters of a text adapt_citations is run on
MaxText == 6

Cite == "\\cite{k}"

CiteNum == "\\citenum{k}"

Punct == {".", ","}

\* what \s matches
WhiteSpace == {" ", "\n"}

RECURSIVE SpaceRun(_, _)
\* the number of spaces \ * takes from position i
SpaceRun(text, i) ==
    IF i <= Len(text) /\ text[i] = " " THEN 1 + SpaceRun(text, i + 1) ELSE 0

RECURSIVE WhiteRun(_, _)
\* the number of characters \s* takes from position i
WhiteRun(text, i) ==
    IF i <= Len(text) /\ text[i] \in WhiteSpace THEN 1 + WhiteRun(text, i + 1) ELSE 0

At(text, i) == IF i >= 1 /\ i <= Len(text) THEN text[i] ELSE ""

\* the match of the first pattern of adapt_citations that starts at i:
\* cite is the place of the directive, 0 when there is no match at i.  The
\* spaces of \ * are given back one at a time until [\ \n] and the directive
\* follow; only the place just before the directive can succeed.
CiteMatch(text, i) ==
    LET k == SpaceRun(text, i)
        behind == i = 1 \/ text[i - 1] \notin Punct
        ok(c) == /\ c - 1 >= i
                 /\ At(text, c - 1) \in {" ", "\n"}
                 /\ At(text, c) = Cite
                 /\ At(text, c + 1) \in Punct
        c == IF ok(i + k + 1) THEN i + k + 1 ELSE IF ok(i + k) THEN i + k ELSE 0
    IN  IF behind /\ c # 0
        THEN [cite |-> c, end |-> c + 2 + WhiteRun(text, c + 2)]
        ELSE [cite |-> 0, end |-> i]

RECURSIVE MoveCites(_, _)
\* the first re.sub of adapt_citations, scanning from position i: a match is
\* replaced by punctuation, directive, group 1, trailing white space
MoveCites(text, i) ==
    IF i > Len(text) THEN <<>>
    ELSE LET m == CiteMatch(text, i)
         IN  IF m.cite # 0
             THEN <<text[m.cite + 1], text[m.cite], text[m.cite - 1]>>
                  \o SubSeq(text, m.cite + 2, m.end - 1)
                  \o MoveCites(text, m.end)
             ELSE <<text[i]>> \o MoveCites(text, i + 1)

\* the second re.sub of adapt_citations: \cite after "Ref." and one space
\* or newline becomes \citenum
RefCites(text) ==
    [i \in 1..Len(text) |->
        IF /\ text[i] = Cite
           /\ At(text, i - 1) \in {" ", "\n"}
           /\ At(text, i - 2) = "."
           /\ At(text, i - 3) = "Ref"
        THEN CiteNum ELSE text[i]]

\* LatexFile.adapt_citations
adapt_citations(text) == RefCites(MoveCites(text, 1))

AdaptAlphabet == {"w", " ", "\n", ".", ",", Cite, "Ref"}

InitAdapt ==
    /\ NoBib
    /\ last = Call("init", <<>>, <<>>)
    /\ file_label = <<"dir">>
    /\ \E n \in 0..MaxText : \E text \in [1..n -> AdaptAlphabet] :
           modified_content = <<text>>
    /\ fs = <<>>
    /\ pc = "loaded"

\* self.adapt_citations(), called once and once more
AdaptCitations ==
    /\ pc \in {"loaded", "adapted"}
    /\ modified_content' = <<adapt_citations(modified_content[1])>>
    /\ last' = Call("adapt_citations", modified_content[1], <<>>)
    /\ pc' = IF pc = "loaded" THEN "adapted" ELSE "adapted twice"
    /\ UNCHANGED <<bibVars, file_label, fs>>

NextAdapt == AdaptCitations

SpecAdapt == InitAdapt /\ [][NextAdapt]_vars

\* C6: adapt_citations is idempotent: a second call leaves the text the
\* first call produced.
C6_AdaptIdempotent == pc = "adapted twice" => modified_content[1] = last.pre

(***************************************************************************)
(* LatexFile.replace_cite_entries                                          *)
(*                                                                         *)
(* Here a text is a sequence of characters in which the opening of a       *)
(* citation directive, "\cite{", "\citenum{" or "\citeauthor{", is one     *)
(* element.  A key is a sequence of letters.                               *)
(***************************************************************************)
\* characters of a text replace_cite_entries is run on
MaxCiteText == 5

\* \\(cite|citenum|citeauthor)\{
Openers == {"\\cite{", "\\citenum{", "\\citeauthor{"}

\* old occurs in text at position q
OccursAt(text, old, q) ==
    /\ q + Len(old) - 1 <= Len(text)
    /\ \A n \in 1..Len(old) : text[q + n - 1] = old[n]

\* the least element of a non-empty set of numbers
Min(S) == CHOOSE x \in S : \A y \in S : x <= y

RECURSIVE SubKey(_, _, _, _)
\* re.sub of (opening + [\S\s]*?) + old, scanning from position i: the match
\* starts at the first opening at or after i and ends with the first old
\* after that opening, whatever lies between them; old becomes new
SubKey(text, old, new, i) ==
    LET opens == {p \in i..Len(text) : text[p] \in Openers}
        olds  == IF opens = {} THEN {}
                 ELSE {q \in (Min(opens) + 1)..Len(text) : OccursAt(text, old, q)}
    IN  IF olds = {} THEN SubSeq(text, i, Len(text))
        ELSE SubSeq(text, i, Min(olds) - 1) \o new
             \o SubKey(text, old, new, Min(olds) + Len(old))

RECURSIVE replace_cite_entries(_, _)
\* LatexFile.replace_cite_entries: one re.sub for every item of merged_dict,
\* in the dict's order
replace_cite_entries(text, merged_dict) ==
    IF merged_dict = <<>> THEN text
    ELSE replace_cite_entries(SubKey(text, merged_dict[1][1], merged_dict[1][2], 1),
                              Tail(merged_dict))

\* the rename maps tried
RenameMaps ==
    { << <<(<<"k">>), <<"z">> >> >>,
      << <<(<<"k">>), <<"z">> >>, <<(<<"b">>), <<"z">> >> >>,
      << <<(<<"k", "b">>), <<"k">> >> >> }

\* the letters of keys are letters that the names of the directives lack
CiteAlphabet == {"\\cite{", "\\citeauthor{", "}", ",", " ", "k", "b"}

RECURSIVE WellFormed(_, _)
\* every directive is closed before the next one opens, no closing brace
\* stands alone, and a directive's argument holds keys, commas and spaces
WellFormed(text, inside) ==
    IF text = <<>> THEN ~ inside
    ELSE IF Head(text) \in Openers THEN ~ inside /\ WellFormed(Tail(text), TRUE)
    ELSE IF Head(text) = "}" THEN inside /\ WellFormed(Tail(text), FALSE)
    ELSE WellFormed(Tail(text), inside)

InitReplace ==
    /\ NoBib
    /\ last = Call("init", <<>>, <<>>)
    /\ file_label = <<"dir">>
    /\ \E n \in 0..MaxCiteText : \E text \in [1..n -> CiteAlphabet] :
           WellFormed(text, FALSE) /\ modified_content = <<text>>
    /\ fs = <<>>
    /\ pc = "loaded"

\* self.replace_cite_entries(merged_dict)
ReplaceCiteEntries ==
    /\ pc = "loaded"
    /\ \E merged_dict \in RenameMaps :
           /\ modified_content' = <<replace_cite_entries(modified_content[1], merged_dict)>>
           /\ last' = Call("replace_cite_entries", modified_content[1], merged_dict)
    /\ pc' = "replaced"
    /\ UNCHANGED <<bibVars, file_label, fs>>

NextReplace == ReplaceCiteEntries

SpecReplace == InitReplace /\ [][NextReplace]_vars

RECURSIVE Outside(_, _)
\* the text outside the argument braces of its directives
Outside(text, inside) ==
    IF text = <<>> THEN <<>>
    ELSE IF Head(text) \in Openers THEN <<Head(text)>> \o Outside(Tail(text), TRUE)
    ELSE IF Head(text) = "}" THEN <<"}">> \o Outside(Tail(text), FALSE)
    ELSE IF inside THEN Outside(Tail(text), inside)
    ELSE <<Head(text)>> \o Outside(Tail(text), inside)

RECURSIVE CitedKeys(_, _, _)
\* the keys cited in the text, in order: the letters between the braces and
\* commas of each directive
CitedKeys(text, inside, key) ==
    IF text = <<>> THEN <<>>
    ELSE IF Head(text) \in Openers THEN CitedKeys(Tail(text), TRUE, <<>>)
    ELSE IF ~ inside THEN CitedKeys(Tail(text), FALSE, <<>>)
    ELSE IF Head(text) = "}" THEN <<key>> \o CitedKeys(Tail(text), FALSE, <<>>)
    ELSE IF Head(text) = "," THEN <<key>> \o CitedKeys(Tail(text), TRUE, <<>>)
    ELSE IF Head(text) = " " THEN CitedKeys(Tail(text), TRUE, key)
    ELSE CitedKeys(Tail(text), TRUE, Append(key, Head(text)))

\* C7: replace_cite_entries changes nothing outside the argument braces of
\* the citation directives, and leaves every cited key that is no key of the
\* map as it was, a key that contains a mapped key included.
C7_OnlyMappedKeysChange ==
    pc = "replaced" =>
        LET before == last.pre
            after  == modified_content[1]
            old    == CitedKeys(before, FALSE, <<>>)
            new    == CitedKeys(after, FALSE, <<>>)
        IN  /\ Outside(after, FALSE) = Outside(before, FALSE)
            /\ Len(new) = Len(old)
            /\ \A i \in 1..Len(old) : ~ DictHas(last.ret, old[i]) => new[i] = old[i]

(***************************************************************************)
(* LatexFile.fix_labels_refs                                               *)
(*                                                                         *)
(* Here a document is a sequence of directives [cmd, arg], \cmd{arg}; a    *)
(* label and a file_label are sequences of characters.                     *)
(***************************************************************************)
\* characters of a label
MaxLabel == 3

Directive(cmd, arg) == [cmd |-> cmd, arg |-> arg]

\* the names \\(label.*?|ref.*?|Cref.*?)\{ matches among those the model uses
LabelCommands == {"label", "ref", "Cref"}

RECURSIVE LastColon(_)
\* the place of the last ":" of a label, 0 when it has none
LastColon(label) ==
    IF label = <<>> THEN 0
    ELSE IF label[Len(label)] = ":" THEN Len(label)
    ELSE LastColon(SubSeq(label, 1, Len(label) - 1))

\* LatexFile._label_ref_to_replace: ":".join(label.split(":")[:-1] +
\* [file_label + "_" + label.split(":")[-1]])
label_ref_to_replace(tag, label) ==
    SubSeq(label, 1, LastColon(label)) \o tag \o <<"_">>
    \o SubSeq(label, LastColon(label) + 1, Len(label))

\* LatexFile.fix_labels_refs: re.sub over the document
fix_labels_refs(tag, text) ==
    [i \in 1..Len(text) |->
        IF text[i].cmd \in LabelCommands
        THEN Directive(text[i].cmd, label_ref_to_replace(tag, text[i].arg))
        ELSE text[i]]

\* the names of the directories the documents are in
Tags == {<<"a">>, <<"b">>, <<"a", "_", "b">>}

LabelAlphabet == {"b", "_", ":"}

Labels == UNION {[1..n -> LabelAlphabet] : n \in 1..MaxLabel}

\* a document that defines a label and refers to it
LabelDocument(label) ==
    <<Directive("label", label), Directive("ref", label), Directive("eqref", label)>>

InitLabels ==
    /\ NoBib
    /\ last = Call("init", <<>>, <<>>)
    /\ \E t1, t2 \in Tags : t1 # t2 /\ file_label = <<t1, t2>>
    /\ \E l1, l2 \in Labels : modified_content = <<LabelDocument(l1), LabelDocument(l2)>>
    /\ fs = <<>>
    /\ pc = <<"loaded", "loaded">>

\* document d's fix_labels_refs(), called once
FixLabelsRefs ==
    \E d \in {1, 2} :
        /\ pc[d] = "loaded"
        /\ modified_content' =
               [modified_content EXCEPT ![d] = fix_labels_refs(file_label[d], @)]
        /\ pc' = [pc EXCEPT ![d] = "fixed"]
        /\ last' = Call("fix_labels_refs", modified_content[d], <<>>)
        /\ UNCHANGED <<bibVars, file_label, fs>>

NextLabels == FixLabelsRefs

SpecLabels == InitLabels /\ [][NextLabels]_vars

DefinedLabels(text) == {text[i].arg : i \in {j \in 1..Len(text) : text[j].cmd = "label"}}

\* C8: after fix_labels_refs on two documents with different file_labels, no
\* label defined in one is a label defined in the other.
C8_NoLabelCollision ==
    pc = <<"fixed", "fixed">> =>
        DefinedLabels(modified_content[1]) \cap DefinedLabels(modified_content[2]) = {}

(***************************************************************************)
(* LatexFile.extract_sections                                              *)
(*                                                                         *)
(* Here the text is a sequence whose elements are "\n", a directive name   *)
(* ("\\section", "\\end", "\\bibliography", ...), a punctuation character  *)
(* or a word; a line is the part of it between two "\n".                   *)
(***************************************************************************)
\* lines of a document
MaxDocLines == 4

RECURSIVE FirstOf(_, _, _)
\* the first place from i on where text has an element of set, Len + 1 if none
FirstOf(text, i, set) ==
    IF i > Len(text) \/ text[i] \in set THEN i ELSE FirstOf(text, i + 1, set)

RECURSIVE SplitLines(_)
\* str.splitlines()
SplitLines(text) ==
    IF text = <<>> THEN <<>>
    ELSE LET k == FirstOf(text, 1, {"\n"})
         IN  <<SubSeq(text, 1, k - 1)>> \o SplitLines(SubSeq(text, k + 1, Len(text)))

RECURSIVE JoinLines(_)
\* "\n".join(final_lines)
JoinLines(lines) ==
    IF lines = <<>> THEN <<>>
    ELSE IF Len(lines) = 1 THEN lines[1]
    ELSE lines[1] \o <<"\n">> \o JoinLines(Tail(lines))

\* sec_re.match(line) for \\section\*?\{([\s\S]*?)\}: whether the line starts
\* with a heading, and the places of its braces
SecStar(line)  == Len(line) >= 2 /\ line[2] = "*"
SecOpen(line)  == IF SecStar(line) THEN 3 ELSE 2
SecClose(line) == FirstOf(line, SecOpen(line) + 1, {"}"})
SecMatch(line) ==
    /\ Len(line) >= SecOpen(line)
    /\ line[1] = "\\section"
    /\ line[SecOpen(line)] = "{"
    /\ SecClose(line) <= Len(line)

\* match.group(1)
SecTitle(line) == SubSeq(line, SecOpen(line) + 1, SecClose(line) - 1)

\* str.lower() of a word of a title
LowerWord(w) ==
    CASE w = "Acknowledgments" -> "acknowledgments"
      [] w = "Conflict"        -> "conflict"
      [] w = "Conflicts"       -> "conflicts"
      [] w = "Interest"        -> "interest"
      [] w = "Intro"           -> "intro"
      [] OTHER -> w

\* match.group(1).strip().lower()
SectionName(title) == [i \in 1..Len(Strip(title)) |-> LowerWord(Strip(title)[i])]

\* re.match(r"(acknowledg|conflicts? of interest?).*", section)
UnnumberedName(section) ==
    \/ Len(section) >= 1 /\ section[1] = "acknowledgments"
    \/ /\ Len(section) >= 5
       /\ section[1] \in {"conflict", "conflicts"}
       /\ section[2] = " " /\ section[3] = "of" /\ section[4] = " "
       /\ section[5] = "interest"

\* r"\end" in line and "document" in line
EndsDocument(line) ==
    /\ \E i \in 1..Len(line) : line[i] = "\\end"
    /\ \E i \in 1..Len(line) : line[i] = "document"

\* r"\bibliography" in line
HasBibliography(line) ==
    \E i \in 1..Len(line) : line[i] \in {"\\bibliography", "\\bibliographystyle"}

\* the heading the first branch of the loop appends
FirstHeading(unnumbered_sections, title) == <<"\\section", "{">> \o title \o <<"}">>

\* the heading the last branch of the loop appends
LaterHeading(unnumbered_sections, title) ==
    IF unnumbered_sections /\ UnnumberedName(SectionName(title))
    THEN <<"\\section", "*", "{">> \o title \o <<"}">>
    ELSE <<"\\section", "{">> \o title \o <<"}">>

RECURSIVE SectionLines(_, _, _, _)
\* the loop of extract_sections over the lines not yet read
SectionLines(lines, start, final_lines, unnumbered_sections) ==
    IF lines = <<>> THEN final_lines
    ELSE LET line == Head(lines)
             rest == Tail(lines)
         IN  IF ~ start /\ SecMatch(line)
             THEN IF Strip(SecTitle(line)) = <<>>
                  THEN SectionLines(rest, start, final_lines, unnumbered_sections)
                  ELSE SectionLines(rest, TRUE,
                           Append(final_lines,
                                  FirstHeading(unnumbered_sections, SecTitle(line))),
                           unnumbered_sections)
             ELSE IF ~ start
             THEN SectionLines(rest, start, final_lines, unnumbered_sections)
             ELSE IF EndsDocument(line) THEN final_lines
             ELSE IF HasBibliography(line)
             THEN SectionLines(rest, start, final_lines, unnumbered_sections)
             ELSE IF SecMatch(line)
             THEN SectionLines(rest, start,
                      Append(final_lines,
                             LaterHeading(unnumbered_sections, SecTitle(line))),
                      unnumbered_sections)
             ELSE SectionLines(rest, start, Append(final_lines, line),
                               unnumbered_sections)

\* LatexFile.extract_sections
extract_sections(text, unnumbered_sections) ==
    JoinLines(SectionLines(SplitLines(text), FALSE, <<>>, unnumbered_sections))

\* the lines documents are made of
DocLines ==
    { <<>>,
      <<"w">>,
      <<"\\section", "{", "Intro", "}">>,
      <<"\\section", "{", " ", "}">>,
      <<"\\section", "{", "Acknowledgments", "}">>,
      <<"\\section", "*", "{", "Acknowledgments", "}", "w">>,
      <<"\\section", "{", " ", "Conflict", " ", "of", " ", "Interest", "}">>,
      <<"\\section", "*", "{", "Conflicts", " ", "of", " ", "Interest", "}">>,
      <<"\\subsection", "{", "Intro", "}">>,
      <<"\\bibliography", "{", "w", "}">>,
      <<"\\bibliographystyle", "{", "w", "}">>,
      <<"\\end", "{", "document", "}">> }

Documents == UNION {[1..n -> DocLines] : n \in 1..MaxDocLines}

InitSections ==
    /\ NoBib
    /\ last = Call("init", <<>>, <<>>)
    /\ file_label = <<>>
    /\ \E d \in Documents : modified_content = JoinLines(d)
    /\ fs = <<>>
    /\ pc = "loaded"

\* extract_sections(unnumbered_sections), called once
ExtractSections ==
    \E unnumbered_sections \in BOOLEAN :
        /\ pc = "loaded"
        /\ modified_content' = extract_sections(modified_content, unnumbered_sections)
        /\ pc' = "extracted"
        /\ last' = Call("extract_sections", <<modified_content, unnumbered_sections>>, <<>>)
        /\ UNCHANGED <<bibVars, file_label, fs>>

NextSections == ExtractSections

SpecSections == InitSections /\ [][NextSections]_vars

\* the lines of the output that are section headings
OutputHeadings ==
    LET lines == SplitLines(modified_content)
    IN  {lines[i] : i \in {j \in 1..Len(lines) : SecMatch(lines[j])}}

\* C11: after extract_sections with the unnumbered flag set, every section
\* heading of the output whose title is an acknowledgments or a
\* conflict-of-interest title is a \section* heading.
C11_UnnumberedEverywhere ==
    (pc = "extracted" /\ last.pre[2]) =>
        \A h \in OutputHeadings :
            UnnumberedName(SectionName(SecTitle(h))) => SecStar(h)

====
